---- MODULE Spec2Model ----
(***************************************************************************)
(* Model of util/demangle.py: demangle(names) launches the external tool   *)
(* c++filt with the names as arguments, captures its standard output as    *)
(* text, splits it on newlines, asserts the segment count and returns all  *)
(* segments but the last.                                                  *)
(*                                                                         *)
(* Text is a sequence of characters; a list of strings is a sequence of    *)
(* such sequences.  "LF" is the newline character, "CR" the carriage       *)
(* return, "a" a plain character.                                          *)
(***************************************************************************)
EXTENDS Integers, Sequences, FiniteSets, TLC

VARIABLES
    callers,        \* the calls of demangle that the run makes
    installed,      \* whether c++filt can be launched from the search path
    deterministic,  \* whether the tool's output is a function of its arguments
    memo,           \* what the deterministic tool has answered: {<<argv, out>>}
    pc,             \* pc[c]: the line call c executes next
    input,          \* input[c]: the value of names when call c was made
    names,          \* names[c]: the caller's list object
    args,           \* args[c]: the local args
    proc,           \* proc[c]: the process behind the local pipe
    launches,       \* launches[c]: the argument vectors call c gave to Popen
    stdout,         \* stdout[c]: the local stdout
    demangled,      \* demangled[c]: the local demangled
    result,         \* result[c]: the returned list
    error,          \* error[c]: the exception that left the call
    overlapped      \* history: a call began while another was under way

vars == <<callers, installed, deterministic, memo, pc, input, names, args,
          proc, launches, stdout, demangled, result, error, overlapped>>

----------------------------------------------------------------------------
(* Bounds *)

MaxNames == 2
MaxOut == 3

Callers == {1, 2}

Char == {"a", "LF", "CR"}
PlainChar == {"a", "LF"}

\* All sequences over S of length at most n.
SeqUpTo(S, n) == UNION {[1..k -> S] : k \in 0..n}

Name == SeqUpTo(Char, 1)
PlainName == {<<"a">>}

single == callers = {1}

\* The lists a call may be given.
NamesInputs ==
    IF single THEN SeqUpTo(Name, MaxNames) ELSE SeqUpTo(PlainName, MaxNames - 1)

\* The byte streams a tool may write.
Outputs ==
    IF single THEN SeqUpTo(Char, MaxOut) ELSE SeqUpTo(PlainChar, MaxOut - 1)

ExitCodes == {0, 1}

----------------------------------------------------------------------------
(* The pure parts of demangle *)

Exe == "c++filt"

\* list.extend: the receiver gets the items appended, the argument is left alone.
ListExtend(list, items) == [self |-> list \o items, other |-> items]

\* Variant: args is a list kept between calls, so a later call extends the
\* argument list an earlier call left behind.
BuildArgsKept(ns) ==
    LET earlier == {d \in Callers : launches[d] # <<>>} IN
      IF earlier = {} THEN ListExtend(<<Exe>>, ns)
      ELSE ListExtend(launches[CHOOSE d \in earlier : TRUE][1], ns)

\* args = ['c++filt']; args.extend(names)
BuildArgs(ns) == ListExtend(<<Exe>>, ns)

\* text=True: the captured bytes are decoded with universal newlines, so
\* "\r\n" and a lone "\r" both arrive as "\n".
RECURSIVE TranslateNewlines(_)
TranslateNewlines(s) ==
    IF s = <<>> THEN <<>>
    ELSE IF Len(s) >= 2 /\ s[1] = "CR" /\ s[2] = "LF"
         THEN <<"LF">> \o TranslateNewlines(SubSeq(s, 3, Len(s)))
    ELSE IF s[1] = "CR" THEN <<"LF">> \o TranslateNewlines(Tail(s))
    ELSE <<s[1]>> \o TranslateNewlines(Tail(s))

\* str.split("\n"): n newlines give n + 1 segments, the empty text one.
RECURSIVE SplitFrom(_, _)
SplitFrom(s, cur) ==
    IF s = <<>> THEN <<cur>>
    ELSE IF s[1] = "LF" THEN <<cur>> \o SplitFrom(Tail(s), <<>>)
    ELSE SplitFrom(Tail(s), Append(cur, s[1]))

Split(s) == SplitFrom(s, <<>>)

\* Variant: the assertion is compiled away.
AssertDisabled(d, ns) == TRUE

\* assert len(demangled) == len(names) + 1
AssertHolds(d, ns) == Len(d) = Len(ns) + 1

\* demangled[:-1]
DropLast(d) == SubSeq(d, 1, Len(d) - 1)

\* Variant: communicate() sends a newline to the tool.
CommunicateInputNewline == <<"LF">>

\* communicate() is called without input.
CommunicateInput == <<>>

\* Variant: a failed launch is swallowed and the call returns.
OnLaunchErrorSwallowed == "returned"

\* Variant: a failed launch is tried again.
OnLaunchErrorRetry == "idle"

\* Popen raising is not caught: the exception leaves demangle.
OnLaunchError == "raised"

NoProc == [state |-> "none", argv |-> <<>>, out |-> <<>>, written |-> 0,
           stdin |-> "none", stdinData |-> <<>>, code |-> 0]

\* Variant: pipe is a module-level name, so every call reads the process
\* of the first caller.
PipeShared(c) == proc[1]

\* The process the local pipe refers to.
PipeOf(c) == proc[c]

\* What has reached the stdout pipe of a process.
Captured(p) == SubSeq(p.out, 1, p.written)

\* Variant: the output is read without waiting for the process.
ReadNoWait(p) == TRUE

\* communicate() returns once stdout is at end of file and the process is reaped.
ReadComplete(p) == p.state = "exited"

----------------------------------------------------------------------------
(* The external tool *)

\* The outputs the tool may choose for an argument vector: a deterministic
\* tool repeats what it answered before for the same arguments.
ToolOutputs(argv) ==
    IF deterministic /\ \E m \in memo : m[1] = argv
    THEN {m[2] : m \in {x \in memo : x[1] = argv}}
    ELSE Outputs

Remember(argv, out) ==
    IF deterministic THEN memo \cup {<<argv, out>>} ELSE memo

\* c++filt without name arguments filters its standard input, so it ends
\* only at end of input; with arguments it does not read.
ReadsStdin(argv) == Len(argv) = 1

\* The tool writes the next character of its output to its stdout.
ToolWrite(c) ==
    /\ proc[c].state = "running"
    /\ proc[c].written < Len(proc[c].out)
    /\ proc' = [proc EXCEPT ![c].written = @ + 1]
    /\ UNCHANGED <<callers, installed, deterministic, memo, pc, input, names,
                   args, launches, stdout, demangled, result, error, overlapped>>

\* The tool exits, with any status, once it has written its output.
ToolExit(c) ==
    /\ proc[c].state = "running"
    /\ proc[c].written = Len(proc[c].out)
    /\ ReadsStdin(proc[c].argv) => proc[c].stdin = "closed"
    /\ \E code \in ExitCodes :
         proc' = [proc EXCEPT ![c].state = "exited", ![c].code = code]
    /\ UNCHANGED <<callers, installed, deterministic, memo, pc, input, names,
                   args, launches, stdout, demangled, result, error, overlapped>>

----------------------------------------------------------------------------
(* demangle, line by line *)

\* A call that has begun and has neither returned nor raised.
InFlight(c) == pc[c] \notin {"idle", "returned", "raised"}

\* Lines 4-10: the call, the argument list and Popen.
Popen(c) ==
    /\ c \in callers
    /\ pc[c] = "idle"
    /\ \E ns \in NamesInputs :
         LET e == BuildArgs(ns) IN
           /\ input' = [input EXCEPT ![c] = ns]
           /\ names' = [names EXCEPT ![c] = e.other]
           /\ args' = [args EXCEPT ![c] = e.self]
           /\ launches' = [launches EXCEPT ![c] = Append(@, e.self)]
           /\ IF installed
              THEN \E out \in ToolOutputs(e.self) :
                     /\ proc' = [proc EXCEPT ![c] =
                                   [state |-> "running", argv |-> e.self,
                                    out |-> out, written |-> 0,
                                    stdin |-> "open", stdinData |-> <<>>,
                                    code |-> 0]]
                     /\ memo' = Remember(e.self, out)
                     /\ pc' = [pc EXCEPT ![c] = "communicate"]
                     /\ error' = error
              ELSE /\ pc' = [pc EXCEPT ![c] = OnLaunchError]
                   /\ error' = [error EXCEPT ![c] = "FileNotFoundError"]
                   /\ UNCHANGED <<proc, memo>>
    /\ overlapped' = (overlapped \/ \E d \in Callers \ {c} : InFlight(d))
    /\ UNCHANGED <<callers, installed, deterministic, stdout, demangled, result>>

\* Line 11, first half: communicate() sends its input and closes stdin.
CommunicateBegin(c) ==
    /\ pc[c] = "communicate"
    /\ proc' = [proc EXCEPT ![c].stdinData = @ \o CommunicateInput,
                            ![c].stdin = "closed"]
    /\ pc' = [pc EXCEPT ![c] = "reading"]
    /\ UNCHANGED <<callers, installed, deterministic, memo, input, names, args,
                   launches, stdout, demangled, result, error, overlapped>>

\* Line 11, second half: communicate() returns the decoded output.
CommunicateEnd(c) ==
    /\ pc[c] = "reading"
    /\ ReadComplete(PipeOf(c))
    /\ stdout' = [stdout EXCEPT ![c] = TranslateNewlines(Captured(PipeOf(c)))]
    /\ pc' = [pc EXCEPT ![c] = "split"]
    /\ UNCHANGED <<callers, installed, deterministic, memo, input, names, args,
                   proc, launches, demangled, result, error, overlapped>>

\* Line 12.
SplitStep(c) ==
    /\ pc[c] = "split"
    /\ demangled' = [demangled EXCEPT ![c] = Split(stdout[c])]
    /\ pc' = [pc EXCEPT ![c] = "assert"]
    /\ UNCHANGED <<callers, installed, deterministic, memo, input, names, args,
                   proc, launches, stdout, result, error, overlapped>>

\* Line 16.
AssertStep(c) ==
    /\ pc[c] = "assert"
    /\ IF AssertHolds(demangled[c], names[c])
       THEN /\ pc' = [pc EXCEPT ![c] = "return"]
            /\ error' = error
       ELSE /\ pc' = [pc EXCEPT ![c] = "raised"]
            /\ error' = [error EXCEPT ![c] = "AssertionError"]
    /\ UNCHANGED <<callers, installed, deterministic, memo, input, names, args,
                   proc, launches, stdout, demangled, result, overlapped>>

\* Line 17.
ReturnStep(c) ==
    /\ pc[c] = "return"
    /\ result' = [result EXCEPT ![c] = DropLast(demangled[c])]
    /\ pc' = [pc EXCEPT ![c] = "returned"]
    /\ UNCHANGED <<callers, installed, deterministic, memo, input, names, args,
                   proc, launches, stdout, demangled, error, overlapped>>

----------------------------------------------------------------------------
(* Specifications *)

InitLocals ==
    /\ memo = {}
    /\ pc = [c \in Callers |-> "idle"]
    /\ input = [c \in Callers |-> <<>>]
    /\ names = [c \in Callers |-> <<>>]
    /\ args = [c \in Callers |-> <<>>]
    /\ proc = [c \in Callers |-> NoProc]
    /\ launches = [c \in Callers |-> <<>>]
    /\ stdout = [c \in Callers |-> <<>>]
    /\ demangled = [c \in Callers |-> <<>>]
    /\ result = [c \in Callers |-> <<>>]
    /\ error = [c \in Callers |-> "none"]
    /\ overlapped = FALSE

\* One call, any tool.
Init ==
    /\ callers = {1}
    /\ installed \in BOOLEAN
    /\ deterministic = FALSE
    /\ InitLocals

\* Two calls, one after the other or at the same time.
InitMulti ==
    /\ callers = Callers
    /\ installed \in BOOLEAN
    /\ deterministic \in BOOLEAN
    /\ InitLocals

CallStep(c) ==
    \/ Popen(c)
    \/ CommunicateBegin(c)
    \/ CommunicateEnd(c)
    \/ SplitStep(c)
    \/ AssertStep(c)
    \/ ReturnStep(c)

ToolStep(c) == ToolWrite(c) \/ ToolExit(c)

Next == \E c \in Callers : CallStep(c) \/ ToolStep(c)

Spec == Init /\ [][Next]_vars

SpecMulti == InitMulti /\ [][Next]_vars

\* The caller's thread keeps running; nothing makes the tool write or exit.
SpecLive == Init /\ [][Next]_vars /\ \A c \in Callers : WF_vars(CallStep(c))

----------------------------------------------------------------------------
(* Vocabulary of the properties *)

Finished(c) == pc[c] \in {"returned", "raised"}
Launched(c) == proc[c].state # "none"

\* The outcome of a call: how it ended, what it returned, what it raised.
Outcome(c) == <<pc[c], result[c], error[c]>>

\* The number of segments a text splits into on newline.
Segments(s) == Cardinality({i \in 1..Len(s) : s[i] = "LF"}) + 1

\* The tool wrote exactly one newline-terminated line per argument and
\* nothing else.
WellBehaved(ns, out) ==
    /\ Cardinality({i \in 1..Len(out) : out[i] = "LF"}) = Len(ns)
    /\ out # <<>> => out[Len(out)] = "LF"

\* The i-th line of a well-behaved output, without its newline.
RECURSIVE LineAt(_, _)
LineAt(out, i) ==
    LET k == CHOOSE j \in 1..Len(out) :
                 out[j] = "LF" /\ \A h \in 1..(j - 1) : out[h] # "LF"
    IN IF i = 1 THEN SubSeq(out, 1, k - 1)
       ELSE LineAt(SubSeq(out, k + 1, Len(out)), i - 1)

\* Every element followed by a newline.
RECURSIVE JoinLines(_)
JoinLines(lines) ==
    IF lines = <<>> THEN <<>>
    ELSE lines[1] \o <<"LF">> \o JoinLines(Tail(lines))

\* What demangle does with names ns and tool output out when nothing else runs.
Alone(ns, out) ==
    LET d == Split(TranslateNewlines(out)) IN
      IF Len(d) = Len(ns) + 1
      THEN <<"returned", SubSeq(d, 1, Len(d) - 1), "none">>
      ELSE <<"raised", <<>>, "AssertionError">>

----------------------------------------------------------------------------
(* Properties *)

\* C1: with a well-behaved tool (one newline-terminated line per argument,
\* nothing else), every call returns a list as long as names.
C1_LengthPreserved ==
    \A c \in Callers :
      (Finished(c) /\ Launched(c) /\ WellBehaved(input[c], proc[c].out))
        => (pc[c] = "returned" /\ Len(result[c]) = Len(input[c]))

\* C2: when the captured output does not split into len(names) + 1 segments,
\* the call raises at the assertion and returns nothing.
C2_MiscountRejected ==
    \A c \in Callers :
      (/\ pc[c] \in {"return", "returned", "raised"}
       /\ Launched(c)
       /\ Segments(stdout[c]) # Len(input[c]) + 1)
        => (pc[c] = "raised" /\ error[c] = "AssertionError" /\ result[c] = <<>>)

C2_Witness ==
    \E c \in Callers :
      /\ pc[c] = "raised"
      /\ error[c] = "AssertionError"
      /\ Segments(stdout[c]) > Len(input[c]) + 1

\* C3: with a well-behaved tool, element i of the returned list is the line
\* the tool wrote for argument i.
C3_Positional ==
    \A c \in Callers :
      (pc[c] = "returned" /\ WellBehaved(input[c], proc[c].out))
        => /\ Len(result[c]) = Len(input[c])
           /\ \A i \in 1..Len(result[c]) : result[c][i] = LineAt(proc[c].out, i)

\* C4: whenever a call returns, the discarded last segment is the empty
\* string, so the captured output is the returned elements each followed by
\* a newline.
C4_DiscardedIsEmpty ==
    \A c \in Callers :
      pc[c] = "returned"
        => /\ demangled[c][Len(demangled[c])] = <<>>
           /\ stdout[c] = JoinLines(result[c])

\* C5: a launch failure, a wrong segment count and a non-zero exit status
\* each make the call raise, with no result and no second launch.
C5_AllErrorsSurfaced ==
    \A c \in Callers :
      (Finished(c) /\ (\/ ~Launched(c)
                       \/ Segments(stdout[c]) # Len(input[c]) + 1
                       \/ proc[c].code # 0))
        => (pc[c] = "raised" /\ result[c] = <<>> /\ Len(launches[c]) = 1)

\* C5, amended: a launch failure and a wrong segment count each make the
\* call raise, with no result and no second launch; the exit status is not
\* looked at, so a call whose output has the right segment count returns
\* whatever the status.
C5_SurfacedButExitStatus ==
    \A c \in Callers :
      Finished(c)
        => /\ ~Launched(c)
                => (/\ pc[c] = "raised"
                    /\ error[c] = "FileNotFoundError"
                    /\ result[c] = <<>>
                    /\ Len(launches[c]) = 1)
           /\ (Launched(c) /\ Segments(stdout[c]) # Len(input[c]) + 1)
                => (/\ pc[c] = "raised"
                    /\ error[c] = "AssertionError"
                    /\ result[c] = <<>>
                    /\ Len(launches[c]) = 1)
           /\ (Launched(c) /\ Segments(stdout[c]) = Len(input[c]) + 1)
                => pc[c] = "returned"

C5_Witness ==
    \E c \in Callers : pc[c] = "returned" /\ proc[c].code # 0

\* C6: demangle([]) launches the tool with no name argument, sends nothing
\* to its stdin and closes it; a tool that then copies its (empty) input
\* to its output makes the call return [].
C6_EmptyInput ==
    \A c \in Callers :
      (/\ Finished(c)
       /\ Launched(c)
       /\ input[c] = <<>>
       /\ proc[c].out = proc[c].stdinData)
        => /\ pc[c] = "returned"
           /\ result[c] = <<>>
           /\ proc[c].argv = <<Exe>>
           /\ proc[c].stdinData = <<>>
           /\ proc[c].stdin = "closed"

C6_Witness ==
    \E c \in Callers :
      /\ pc[c] = "returned"
      /\ input[c] = <<>>
      /\ proc[c].state = "exited"
      /\ proc[c].out = <<>>

\* C7: a call gives Popen one argument vector, the executable followed by
\* the names in order, whether it returns or raises; there is no second launch.
C7_OneLaunch ==
    \A c \in Callers :
      /\ Len(launches[c]) <= 1
      /\ pc[c] # "idle" => launches[c] = << <<Exe>> \o input[c] >>
      /\ Launched(c) => proc[c].argv = <<Exe>> \o input[c]

C7_Witness ==
    \E c \in Callers :
      /\ pc[c] = "raised"
      /\ Len(input[c]) = 2
      /\ input[c][1] # input[c][2]
      /\ launches[c] = << <<Exe, input[c][1], input[c][2]>> >>

\* C8: with a deterministic tool, two calls with the same names end the
\* same way: equal returned lists or the same failure.
C8_Deterministic ==
    deterministic =>
      \A c, d \in Callers :
        (Finished(c) /\ Finished(d) /\ input[c] = input[d])
          => Outcome(c) = Outcome(d)

C8_Witness ==
    /\ deterministic
    /\ pc[1] = "returned"
    /\ pc[2] = "returned"
    /\ input[1] = input[2]
    /\ input[1] # <<>>

\* C9: under every interleaving of two calls, each call launches its own
\* process with its own names, ends as it would alone on that process's
\* output, and leaves the caller's list as it was.
C9_Independent ==
    \A c \in Callers :
      /\ names[c] = input[c]
      /\ Launched(c) => proc[c].argv = <<Exe>> \o input[c]
      /\ (Finished(c) /\ Launched(c)) => Outcome(c) = Alone(input[c], proc[c].out)

C9_Witness ==
    /\ overlapped
    /\ Finished(1)
    /\ Finished(2)
    /\ Outcome(1) # Outcome(2)
    /\ proc[1].out # proc[2].out

\* The locals after communicate() exist only once the process has exited,
\* and hold all of its output; a call does not end while its process runs.
C10_AfterExit(c) ==
    /\ (pc[c] \in {"split", "assert", "return", "returned"}
          \/ (pc[c] = "raised" /\ Launched(c)))
         => (/\ proc[c].state = "exited"
             /\ stdout[c] = TranslateNewlines(proc[c].out))
    /\ (demangled[c] # <<>> \/ result[c] # <<>>) => proc[c].state = "exited"
    /\ proc[c].state = "running" => ~Finished(c)

\* C10: the output is decoded, split and checked, and the call ends, only
\* after the process has exited and with all of its output (so a tool that
\* never exits means a call that never ends); once the process has exited
\* the call eventually returns or raises.
C10_Blocking ==
    /\ [](\A c \in Callers : C10_AfterExit(c))
    /\ \A c \in Callers : (proc[c].state = "exited") ~> Finished(c)

C10_Witness ==
    \E c \in Callers :
      /\ pc[c] = "returned"
      /\ proc[c].state = "exited"
      /\ Len(proc[c].out) = MaxOut

====
